---- MODULE Spec2Model ----
(***************************************************************************)
(* Enders-Sync server: the RPC dispatcher (class RPC), the cookie           *)
(* middleware and the POST {path}/call endpoint of src/src/server.ts        *)
(* (first definition, lines 1-263).                                         *)
(*                                                                          *)
(* Spec is the dispatcher: Post is the endpoint callback together with the  *)
(* synchronous part of RPC.handler, up to the await of the handler's        *)
(* result; Resume is the continuation after that await.  Registrations      *)
(* (add, handleError) may interleave with requests in flight.               *)
(*                                                                          *)
(* CookieSpec is the cookie middleware, which runs before the endpoint.     *)
(* The RPC class never reads req.cookies: only the host's validator does,   *)
(* and what the validator answers is an input of Post.                      *)
(*                                                                          *)
(* The object handed to a handler as metadata (lines 136-139) is carried    *)
(* as the first argument of the call and not looked into.  The earlier      *)
(* dispatchers kept in the sources (server.ts 266-445, src/unnamed) differ  *)
(* in the catch block, the await and the middleware; those differences are  *)
(* written out as EchoCatch and NoAwait.                                    *)
(***************************************************************************)
EXTENDS Integers, Sequences, FiniteSets, TLC

\* ------------------------------------------------------------------ bounds
MaxAdds == 2        \* calls of RPC.add in one behaviour
MaxRequests == 1    \* POST {path}/call requests in one behaviour
MaxSegs == 3        \* name=value segments in a cookie header

\* --------------------------------------------------------------- constants
api_version == 1

\* ------------------------------------------------------- JavaScript values
\* A JSON / JavaScript value: its type tag and payload.
JS(kind, str, num, elems) == [kind |-> kind, str |-> str, num |-> num, elems |-> elems]
Undefined == JS("undefined", "", 0, <<>>)
Null == JS("null", "", 0, <<>>)
Str(s) == JS("string", s, 0, <<>>)
Num(n) == JS("number", "", n, <<>>)
Bool(b) == JS("boolean", "", IF b THEN 1 ELSE 0, <<>>)
Arr(e) == JS("array", "", 0, e)
Obj == JS("object", "", 0, <<>>)

\* ToBoolean: what `!x`, `x && ...` and `x || ...` test.
Truthy(v) ==
    CASE v.kind = "undefined" -> FALSE
      [] v.kind = "null" -> FALSE
      [] v.kind = "string" -> v.str # ""
      [] v.kind = "number" -> v.num # 0
      [] v.kind = "boolean" -> v.num = 1
      [] OTHER -> TRUE

\* typeof x === 'string'
IsString(v) == v.kind = "string"

\* Array.isArray(x)
IsArray(v) == v.kind = "array"

\* --------------------------------------------------------------- the inputs
\* Handler functions the host may register, and Function.prototype.name of each.
Handlers == {"H1", "H2"}
Names == {"f", "g"}
NoFn == "none"
fn_name(h) ==
    IF h = "H1" THEN "f" ELSE ""     \* H2 is an anonymous function

\* optional_name arguments of RPC.add.
OptionalNames == {Null, Str("g")}

\* `method` of a request body.
MethodVals == {Undefined, Null, Num(0), Num(7), Str(""), Str("g"), Str("h")}

\* `params` of a request body.
ParamVals == {Undefined, Str(""), Str("x"), Obj, Arr(<<1, 2>>)}

\* req.body: null/undefined, or an object with (some of) the keys method, params
\* and version; a key that is absent reads as undefined.
Body(isNull, method, params, version) ==
    [isNull |-> isNull, method |-> method, params |-> params, version |-> version]
NoBody == Body(TRUE, Undefined, Undefined, Undefined)
Bodies ==
    {NoBody, Body(FALSE, Undefined, Undefined, Undefined),
     Body(FALSE, Str("g"), Undefined, Undefined),
     Body(FALSE, Str("g"), Arr(<<1, 2>>), Num(api_version + 1))}
    \cup {Body(FALSE, m, p, Num(api_version)) :
             m \in MethodVals \ {Str("g")}, p \in {Undefined, Obj}}
    \cup {Body(FALSE, Str("g"), p, Num(api_version)) : p \in ParamVals}

\* What a host validator does with a request.
\*   accept:     { success: true }, with or without metadata
\*   reject:     { success: false }
\*   throw:      the validator throws
Gates == {"accept", "reject", "throw"}
NoGate == "notrun"

\* Things a handler or renderer can throw.
Labels == {"conflict"}
Thrown(cls, message, status_code, error_label, error_params) ==
    [cls |-> cls, message |-> message, status_code |-> status_code,
     error_label |-> error_label, error_params |-> error_params]
NoError == Thrown("none", "", 0, "", "")
\* new RPCError(status_code, error_label, params)
RPCError(status_code, error_label, params) ==
    Thrown("RPCError", "", status_code, error_label, params)
\* new Error(message)
PlainError(message) == Thrown("Error", message, 0, "", "")
\* throw "text"
ThrownString(text) == Thrown("string", text, 0, "", "")

\* What a registered handler does when invoked:
\*   return v   it returns the plain value v
\*   resolve v  it returns a promise that fulfils with v
\*   throw e    it throws e synchronously
\*   reject e   it returns a promise that rejects with e
Outcome(how, value, err) == [how |-> how, value |-> value, err |-> err]
NoOutcome == Outcome("none", Undefined, NoError)
Outcomes ==
    {Outcome("return", Undefined, NoError), Outcome("resolve", Num(7), NoError),
     Outcome("throw", Undefined, RPCError(409, "conflict", "p1")),
     Outcome("reject", Undefined, RPCError(404, "conflict", "p2")),
     Outcome("throw", Undefined, PlainError("db password leaked")),
     Outcome("reject", Undefined, ThrownString("raw text"))}

\* Error renderers the host may register with handleError.
Renderers == {"R1", "Rthrow"}
NoRenderer == "none"
RendererThrows(r) == r = "Rthrow"
\* error_handler(error.error_params) for a renderer that returns.
Render(r, error_params) == "conflict on " \o error_params

\* ------------------------------------------------------------ Map<K, V>
\* this.functions is a Map: a sequence of entries in insertion order.
Map_has(m, k) == \E i \in 1..Len(m) : m[i].name = k

\* Map.prototype.get: the entry under k, or NoFn (undefined).
Map_get(m, k) ==
    IF Map_has(m, k)
    THEN m[CHOOSE i \in 1..Len(m) : m[i].name = k /\ \A j \in 1..(i - 1) : m[j].name # k].fn
    ELSE NoFn

\* A buggy Map.set: appends without looking for the key.
Map_set_append(m, k, v) == Append(m, [name |-> k, fn |-> v])

\* Map.prototype.set: replaces the value of an existing key in place, else appends.
Map_set(m, k, v) ==
    IF Map_has(m, k)
    THEN [i \in 1..Len(m) |-> IF m[i].name = k THEN [name |-> k, fn |-> v] ELSE m[i]]
    ELSE Append(m, [name |-> k, fn |-> v])

\* Array.from(map.keys())
Map_keys(m) == [i \in 1..Len(m) |-> m[i].name]

\* ------------------------------------------------------------- responses
GenericError == "Error 500: operation failed"

\* lines 93-97
MissingMethodResponse ==
    [success |-> FALSE, code |-> 400,
     error |-> "bad request: the request need to have \"method\" and \"params\""]

\* lines 101-105
NotAStringResponse ==
    [success |-> FALSE, code |-> 404, error |-> "bad request: RPC function doesn't exist"]

\* lines 109-113
ParamsNotListResponse ==
    [success |-> FALSE, error |-> "bad request: RPC params should be a list", code |-> 400]

\* lines 119-123
NotFoundResponse(methodName) ==
    [success |-> FALSE, error |-> "RPC function '" \o methodName \o "' not found", code |-> 400]

\* lines 129-133
AuthFailedResponse == [success |-> FALSE, error |-> "authorization failed", code |-> 403]

\* The success envelope with the data key forgotten.
SuccessResponseNoData(result) == [success |-> TRUE, code |-> 200]

\* lines 145-149
SuccessResponse(result) == [success |-> TRUE, data |-> result, code |-> 200]

\* lines 158-162 and 175-179
GenericResponse == [success |-> FALSE, error |-> GenericError, code |-> 500]

\* The rendered envelope with the error's own status replaced by 500.
RenderedResponse500(error_msg, error) ==
    [success |-> FALSE, error |-> error_msg, code |-> 500]

\* lines 166-170
RenderedResponse(error_msg, error) ==
    [success |-> FALSE, error |-> error_msg, code |-> error.status_code]

\* ------------------------------------------------------------ RPC.handler
\* What a run of RPC.handler has come to:
\*   returned  the promise fulfilled with the envelope resp
\*   rejected  the promise rejected: an exception left RPC.handler
\*   awaiting  suspended at `await functionHandler(...)`
\* with what it did on the way: gate is what the validator answered (NoGate when
\* it was not called), fn the handler invoked (NoFn when none was), args what the
\* handler was called with, outcome what the handler did, error_handler the
\* renderer the catch block found (line 154).
Dispatch(kind, resp, gate, fn, args, outcome, error_handler) ==
    [kind |-> kind, resp |-> resp, gate |-> gate, fn |-> fn, args |-> args,
     outcome |-> outcome, error_handler |-> error_handler]
NoResp == [none |-> TRUE]
NoArgs == <<"not called">>
Early(resp) == Dispatch("returned", resp, NoGate, NoFn, NoArgs, NoOutcome, NoRenderer)

\* A check for an absent method only: if (methodName === undefined)
MethodMissingOnlyUndefined(methodName) == methodName.kind = "undefined"

\* line 92: if (!methodName)
MethodMissing(methodName) == ~Truthy(methodName)

\* line 100: if (typeof methodName !== 'string')
MethodNotString(methodName) == ~IsString(methodName)

\* line 108: if (params && !Array.isArray(params))
ParamsNotList(params) == Truthy(params) /\ ~IsArray(params)

\* The validator's answer ignored.
ValidationIgnored(gate) == FALSE

\* line 128: if (validation.success === false)
ValidationFailed(gate) == gate = "reject"

\* line 143: functionHandler(metadata, ...(params || [])): the arguments of the call
SpreadParams(params) == <<"metadata">> \o (IF Truthy(params) THEN params.elems ELSE <<>>)

\* line 143 without the await (src/unnamed, line 86): a promise is passed on as
\* it is, and serialises to {}.
NoAwait(outcome) == IF outcome.how = "resolve" THEN Obj ELSE outcome.value

\* line 143: the value of `await functionHandler(...)` when the handler does not fail.
Await(outcome) == outcome.value

\* What the catch block comes to: an envelope, or an exception of its own.
Caught(kind, resp, error_handler) ==
    [kind |-> kind, resp |-> resp, error_handler |-> error_handler]

\* lines 380-386: the catch of the earlier dispatcher, which echoes the failure.
EchoCatch(error, registry) ==
    Caught("returned", [success |-> FALSE, error |-> error.message, code |-> 500], NoRenderer)

\* lines 151-181: the catch block. registry is this.error_handlers_registry.
\* A renderer that throws throws out of the catch block, and so out of RPC.handler.
handler_catch(error, registry) ==
    IF error.cls = "RPCError"
    THEN LET error_handler == registry[error.error_label]
         IN  IF error_handler = NoRenderer
             THEN Caught("returned", GenericResponse, NoRenderer)
             ELSE IF RendererThrows(error_handler)
             THEN Caught("rejected", NoResp, error_handler)
             ELSE Caught("returned",
                         RenderedResponse(Render(error_handler, error.error_params), error),
                         error_handler)
    ELSE Caught("returned", GenericResponse, NoRenderer)

\* lines 87-183, up to the first suspension. gate is what this.validator(req) does
\* and outcome what the resolved handler does, should the code come to call them.
handler(requestData, fns, registry, gate, outcome) ==
    LET methodName == requestData.method
        params == requestData.params
    IN  IF MethodMissing(methodName)
        THEN Early(MissingMethodResponse)
        ELSE IF MethodNotString(methodName)
        THEN Early(NotAStringResponse)
        ELSE IF ParamsNotList(params)
        THEN Early(ParamsNotListResponse)
        ELSE LET functionHandler == Map_get(fns, methodName.str)
             IN  IF functionHandler = NoFn
                 THEN Early(NotFoundResponse(methodName.str))
                 ELSE IF gate = "throw"
                 THEN Dispatch("rejected", NoResp, gate, NoFn, NoArgs, NoOutcome, NoRenderer)
                 ELSE IF ValidationFailed(gate)
                 THEN Dispatch("returned", AuthFailedResponse, gate, NoFn, NoArgs, NoOutcome,
                               NoRenderer)
                 ELSE LET args == SpreadParams(params)
                      IN  IF outcome.how = "throw"
                          THEN LET c == handler_catch(outcome.err, registry)
                               IN  Dispatch(c.kind, c.resp, gate, functionHandler, args,
                                            outcome, c.error_handler)
                          ELSE Dispatch("awaiting", NoResp, gate, functionHandler, args,
                                        outcome, NoRenderer)

\* lines 143-181, after the await: d is the suspended run, registry the renderers now.
handler_resume(d, registry) ==
    IF d.outcome.how = "reject"
    THEN LET c == handler_catch(d.outcome.err, registry)
         IN  Dispatch(c.kind, c.resp, d.gate, d.fn, d.args, d.outcome, c.error_handler)
    ELSE Dispatch("returned", SuccessResponse(Await(d.outcome)), d.gate, d.fn, d.args,
                  d.outcome, NoRenderer)

\* -------------------------------------------------------- POST {path}/call
Http(status, body) == [status |-> status, body |-> body]
NoHttp == Http(0, NoResp)

\* line 243: !requestData || Object.keys(requestData).length === 0
EmptyBody(requestData) ==
    \/ requestData.isNull
    \/ /\ requestData.method = Undefined
       /\ requestData.params = Undefined
       /\ requestData.version = Undefined

\* lines 253-258: what the endpoint writes once RPC.handler has settled.
Reply(d) ==
    IF d.kind = "returned"
    THEN Http(d.resp.code, d.resp)
    ELSE Http(500, [error |-> "Internal server error 500"])

\* ------------------------------------------------------------ cookieParser
\* req.headers.cookie: absent, or a string of name=value segments.
Header(present, segs) == [present |-> present, segs |-> segs]
Seg(k, v) == [k |-> k, v |-> v]
Segs == {Seg(k, v) : k \in {"a", "b"}, v \in {"1", "2", "hello%20world"}}
Headers ==
    {Header(FALSE, <<>>)}
    \cup {Header(TRUE, segs) : segs \in UNION {[1..n -> Segs] : n \in 0..MaxSegs}}

\* decodeURIComponent on the values that occur.
Decode(v) == IF v = "hello%20world" THEN "hello world" ELSE v

\* line 220: cookie.parse(raw_cookies); the first segment of a name wins.
cookie_parse(segs) ==
    [k \in {segs[i].k : i \in 1..Len(segs)} |->
        Decode(segs[CHOOSE i \in 1..Len(segs) :
                       segs[i].k = k /\ \A j \in 1..(i - 1) : segs[j].k # k].v)]

\* req.cookies: undefined, or a mapping.
Cookies(defined, map) == [defined |-> defined, map |-> map]
NoCookies == Cookies(FALSE, <<>>)

\* line 215: if (!raw_cookies)
NoRawCookies(header) == ~header.present \/ header.segs = <<>>

\* lines 214-220: req.cookies after the middleware, from req.cookies before it.
cookies_after(header, cookies) ==
    IF NoRawCookies(header) THEN cookies
    ELSE Cookies(TRUE, cookie_parse(header.segs))

\* ------------------------------------------------------------------ state
VARIABLES
    functions,                \* RPC.functions
    error_handlers_registry,  \* RPC.error_handlers_registry
    registered,               \* history: the (name, handler) pairs add() has stored, in order
    addError,                 \* what the last add() threw ("" when it returned)
    inflight,                 \* runs of RPC.handler suspended at the await, with their bodies
    done,                     \* the exchange that finished last
    req,                      \* the request that last passed the cookie middleware
    nAdds, nReqs

vars == <<functions, error_handlers_registry, registered, addError, inflight, done, req,
          nAdds, nReqs>>

NotCalled == Dispatch("notcalled", NoResp, NoGate, NoFn, NoArgs, NoOutcome, NoRenderer)
Exchange(body, d, http) == [body |-> body, d |-> d, http |-> http]
Request(header, cookies, nextCalled) ==
    [header |-> header, cookies |-> cookies, nextCalled |-> nextCalled]

\* new RPC() and createRPC(app, path, validator): empty registries, no request yet.
Init ==
    /\ functions = <<>>
    /\ error_handlers_registry = [l \in Labels |-> NoRenderer]
    /\ registered = <<>>
    /\ addError = ""
    /\ inflight = <<>>
    /\ done = Exchange(NoBody,
                       Dispatch("none", NoResp, NoGate, NoFn, NoArgs, NoOutcome, NoRenderer),
                       NoHttp)
    /\ req = Request(Header(FALSE, <<>>), NoCookies, FALSE)
    /\ nAdds = 0
    /\ nReqs = 0

\* lines 192-198: the name add() stores the handler under.
func_name(functionHandler, optional_name) ==
    IF Truthy(optional_name) THEN optional_name.str ELSE fn_name(functionHandler)

\* lines 191-204
add(functionHandler, optional_name) ==
    /\ nAdds < MaxAdds
    /\ nAdds' = nAdds + 1
    /\ LET name == func_name(functionHandler, optional_name)
       IN  IF name = ""
           THEN /\ addError' = "Function must have a name"
                /\ UNCHANGED <<functions, registered>>
           ELSE /\ addError' = ""
                /\ functions' = Map_set(functions, name, functionHandler)
                /\ registered' = Append(registered, [name |-> name, fn |-> functionHandler])
    /\ UNCHANGED <<error_handlers_registry, inflight, done, req, nReqs>>

\* lines 83-85
handleError(label, error_handler) ==
    /\ error_handlers_registry' = [error_handlers_registry EXCEPT ![label] = error_handler]
    /\ UNCHANGED <<functions, registered, addError, inflight, done, req, nAdds, nReqs>>

\* lines 238-260 with the synchronous part of RPC.handler.
Post(requestData, gate, outcome) ==
    /\ nReqs < MaxRequests
    /\ nReqs' = nReqs + 1
    /\ IF EmptyBody(requestData)
       THEN /\ done' = Exchange(requestData, NotCalled, Http(400, [error |-> "Invalid JSON"]))
            /\ UNCHANGED inflight
       ELSE IF requestData.version # Num(api_version)
       THEN /\ done' = Exchange(requestData, NotCalled,
                                Http(400, [error |-> "Invalid API version"]))
            /\ UNCHANGED inflight
       ELSE LET d == handler(requestData, functions, error_handlers_registry, gate, outcome)
            IN  IF d.kind = "awaiting"
                THEN /\ inflight' = Append(inflight, [body |-> requestData, d |-> d])
                     /\ UNCHANGED done
                ELSE /\ done' = Exchange(requestData, d, Reply(d))
                     /\ UNCHANGED inflight
    /\ UNCHANGED <<functions, error_handlers_registry, registered, addError, req, nAdds>>

\* lines 143-181 and 253-258: the handler's promise settles and the run goes on.
Resume(i) ==
    /\ i \in 1..Len(inflight)
    /\ LET d == handler_resume(inflight[i].d, error_handlers_registry)
       IN  done' = Exchange(inflight[i].body, d, Reply(d))
    /\ inflight' = [j \in 1..(Len(inflight) - 1) |->
                       IF j < i THEN inflight[j] ELSE inflight[j + 1]]
    /\ UNCHANGED <<functions, error_handlers_registry, registered, addError, req, nAdds,
                   nReqs>>

Next ==
    \/ \E h \in Handlers, n \in OptionalNames : add(h, n)
    \/ \E l \in Labels, r \in Renderers : handleError(l, r)
    \/ \E b \in Bodies, g \in Gates, o \in Outcomes : Post(b, g, o)
    \/ \E i \in 1..MaxRequests : Resume(i)

Spec == Init /\ [][Next]_vars

\* lines 213-223: a request arrives, req.cookies not yet defined, and passes the
\* middleware, which calls next() on both paths.
cookieParser(header) ==
    /\ req' = Request(header, cookies_after(header, NoCookies), TRUE)
    /\ UNCHANGED <<functions, error_handlers_registry, registered, addError, inflight, done,
                   nAdds, nReqs>>

CookieNext == \E h \in Headers : cookieParser(h)

CookieSpec == Init /\ [][CookieNext]_vars

\* ------------------------------------------------------------------ claims
\* The dispatch of the exchange that finished last ran RPC.handler.
Dispatched == done.d.kind \in {"returned", "rejected"}

\* C1: when the validator rejects a well-formed request for a registered method,
\* the response is success=false with code 403 and no handler is invoked.
C1_GateRejection ==
    /\ done.d.gate = "reject" =>
          /\ done.d.kind = "returned"
          /\ done.d.resp = [success |-> FALSE, error |-> "authorization failed", code |-> 403]
          /\ done.http.status = 403
          /\ done.d.fn = NoFn
          /\ done.d.outcome = NoOutcome
    /\ \A i \in 1..Len(inflight) : inflight[i].d.gate # "reject"

C1_Witness ==
    /\ done.d.gate = "reject"
    /\ done.body.method = Str("g")
    /\ done.http.status = 403

\* C2: every failure during a dispatch is turned into an envelope inside
\* RPC.handler: the promise RPC.handler returns never rejects.
C2_NothingEscapes == done.d.kind # "rejected"

\* The handler failed with something that is not an RPCError.
Unstructured(outcome) ==
    outcome.how \in {"throw", "reject"} /\ outcome.err.cls # "RPCError"

\* C3: when the handler fails with an unstructured failure the response is
\* success=false, code 500, the fixed generic message, and not the failure's text.
C3_UnstructuredIsGeneric ==
    Unstructured(done.d.outcome) =>
        /\ done.d.kind = "returned"
        /\ done.d.resp =
              [success |-> FALSE, error |-> "Error 500: operation failed", code |-> 500]
        /\ done.d.resp.error # done.d.outcome.err.message
        /\ done.http = Http(500, done.d.resp)

C3_Witness ==
    /\ done.d.outcome.how = "reject"
    /\ done.d.outcome.err = ThrownString("raw text")
    /\ done.http.status = 500

\* C4: when the method is registered, the validator authorizes and the handler
\* returns (or its promise fulfils with) a value, the response is success=true,
\* data that value, code 200, and no error.
C4_SuccessCarriesResult ==
    (done.d.gate = "accept" /\ done.d.outcome.how \in {"return", "resolve"}) =>
        /\ done.d.kind = "returned"
        /\ done.d.fn # NoFn
        /\ done.d.resp = [success |-> TRUE, data |-> done.d.outcome.value, code |-> 200]
        /\ "error" \notin DOMAIN done.d.resp
        /\ done.http = Http(200, done.d.resp)

C4_Witness ==
    /\ done.d.outcome = Outcome("resolve", Num(7), NoError)
    /\ done.d.kind = "returned"
    /\ done.d.resp.data = Num(7)
    /\ done.d.args = <<"metadata", 1, 2>>

\* C5 as stated: whenever method is not a string the dispatch answers code 404.
C5_NonStringIs404 ==
    (Dispatched /\ ~IsString(done.body.method)) =>
        /\ done.d.kind = "returned"
        /\ done.d.resp.success = FALSE
        /\ done.d.resp.code = 404

\* C5 amended: a method that is not a string answers success=false with code 404
\* when it is truthy (a non-zero number, an object) and with code 400 when it is
\* falsy (absent, null, 0), whatever params and the registry hold; neither the
\* validator nor a handler is reached.
C5_NonStringIs404Or400 ==
    (Dispatched /\ ~IsString(done.body.method)) =>
        /\ done.d.kind = "returned"
        /\ done.d.resp.success = FALSE
        /\ done.d.resp.code = (IF Truthy(done.body.method) THEN 404 ELSE 400)
        /\ done.http.status = done.d.resp.code
        /\ done.d.gate = NoGate
        /\ done.d.fn = NoFn

C5_Witness ==
    /\ done.body.method = Num(7)
    /\ done.body.params = Obj
    /\ Len(functions) > 0
    /\ done.http.status = 404

\* params is present and is not a sequence.
ParamsPresentNotSequence(body) == body.params.kind \notin {"undefined", "array"}

\* C6: for a non-empty string method and params that is present but not a
\* sequence, the dispatch answers success=false with code 400 and neither the
\* validator nor a handler is invoked.
C6_BadParamsIs400 ==
    /\ (/\ Dispatched
        /\ IsString(done.body.method)
        /\ done.body.method.str # ""
        /\ ParamsPresentNotSequence(done.body)) =>
          /\ done.d.kind = "returned"
          /\ done.d.resp.success = FALSE
          /\ done.d.resp.code = 400
          /\ done.d.gate = NoGate
          /\ done.d.fn = NoFn
    /\ \A i \in 1..Len(inflight) : ~ParamsPresentNotSequence(inflight[i].body)

C8_RenderedError ==
    (done.d.error_handler # NoRenderer /\ ~RendererThrows(done.d.error_handler)) =>
        /\ done.d.outcome.err.cls = "RPCError"
        /\ done.d.kind = "returned"
        /\ done.d.resp =
              [success |-> FALSE,
               error |-> Render(done.d.error_handler, done.d.outcome.err.error_params),
               code |-> done.d.outcome.err.status_code]
        /\ done.http.status = done.d.outcome.err.status_code

C8_Witness ==
    /\ done.d.outcome.err = RPCError(404, "conflict", "p2")
    /\ done.d.error_handler = "R1"
    /\ done.d.resp.error = "conflict on p2"
    /\ done.http.status = 404

\* The handler most recently registered under name in the history h, NoFn when none.
Latest(h, name) ==
    IF \E i \in 1..Len(h) : h[i].name = name
    THEN h[CHOOSE i \in 1..Len(h) :
              h[i].name = name /\ \A j \in (i + 1)..Len(h) : h[j].name # name].fn
    ELSE NoFn

\* The registry holds, for every name, the handler registered last under it, and
\* dump() lists no name twice.
RegistryIsLatest ==
    /\ \A n \in Names : Map_get(functions, n) = Latest(registered, n)
    /\ \A i, j \in 1..Len(functions) :
          Map_keys(functions)[i] = Map_keys(functions)[j] => i = j

\* A dispatch step invokes no handler but the one registered last under the method.
DispatchUsesLatest ==
    nReqs' # nReqs =>
        LET rec == IF Len(inflight') > Len(inflight) THEN inflight'[Len(inflight')] ELSE done'
        IN  /\ rec.d.fn # NoFn => rec.d.fn = Latest(registered, rec.body.method.str)
            /\ rec.d.gate = "accept" => rec.d.fn # NoFn

\* C9: after any sequence of add() calls the registry holds one handler per
\* name, the one registered last; every later dispatch of the name invokes that
\* handler, and the name is listed once.
C9_LastRegistrationWins == []RegistryIsLatest /\ [][DispatchUsesLatest]_vars

C9_Witness ==
    /\ Len(registered) = 2
    /\ registered[1].name = registered[2].name
    /\ registered[1].fn # registered[2].fn
    /\ Map_keys(functions) = <<registered[2].name>>
    /\ done.d.kind = "returned"
    /\ done.d.fn = registered[2].fn

\* C10: after the middleware has run on a request without a cookie header,
\* req.cookies is an empty mapping and next() has been called.
C10_NoHeaderGivesEmptyCookies ==
    (req.nextCalled /\ ~req.header.present) =>
        /\ req.cookies = Cookies(TRUE, <<>>)

====
